---------------------------- MODULE Spec2Model ----------------------------
(***************************************************************************)
(* A model of pyterrier's transformer algebra (src/pyterrier/transformer.py) *)
(*                                                                         *)
(* Result tables are pandas DataFrames.  A DataFrame is a mutable object:  *)
(* transformers pass references to them, so the model keeps a heap of      *)
(* tables and lets every transform return a reference into it.             *)
(***************************************************************************)
EXTENDS Integers, Sequences, FiniteSets, TLC

(***************************************************************************)
(* Bounds of the model.                                                    *)
(***************************************************************************)
MaxRows  == 2      \* rows of an input table / of a Uniform's fixed table
MaxScore == 2      \* scores of those tables are 1..MaxScore

Qids     == {1}            \* query ids, numbered in their sort order
Docnos   == {1, 2}         \* document ids, numbered in their sort order
Scalars  == {2}            \* constants of the ScalarProduct nodes

(***************************************************************************)
(* DataFrames.  A column label is a tuple: the name, then the suffixes a   *)
(* merge appended (<<"score", "x">> is pandas' "score_x").  A table is     *)
(*   shape : column label -> the numpy shape of the column's cells         *)
(*           (<< >> for a scalar, <<2>> for a vector of two components),   *)
(*   rows  : the rows in order, each a function column label -> value.     *)
(***************************************************************************)
QID      == <<"qid">>
DOCNO    == <<"docno">>
SCORE    == <<"score">>
FEATURES == <<"features">>
KeyCols  == {QID, DOCNO}

Cols(t)    == DOMAIN t.shape
Key(r)     == <<r[QID], r[DOCNO]>>
KeysOf(t)  == {Key(t.rows[i]) : i \in 1..Len(t.rows)}
UniqueKeys(t) ==
    \A i, j \in 1..Len(t.rows) : Key(t.rows[i]) = Key(t.rows[j]) => i = j

\* A result table has the columns qid, docno, score and rank, the rank of a
\* row being its position in the table.
RANK        == <<"rank">>
ResultCols  == {QID, DOCNO, SCORE, RANK}
ResultShape == [c \in ResultCols |-> << >>]
MkRow(q, d, s, rk) ==
    [c \in ResultCols |-> IF c = QID THEN q ELSE IF c = DOCNO THEN d
                          ELSE IF c = SCORE THEN s ELSE rk]
MkTable(qds) ==
    [shape |-> ResultShape,
     rows  |-> [i \in 1..Len(qds) |-> MkRow(qds[i][1], qds[i][2], qds[i][3], i - 1)]]

\* What a raising pandas call leaves: no table.
NoTable == [shape |-> [c \in {} |-> << >>], rows |-> << >>]
Raise   == [ok |-> FALSE, t |-> NoTable]
Ok(t)   == [ok |-> TRUE, t |-> t]

RECURSIVE FlatSeq(_)
FlatSeq(ss) == IF ss = << >> THEN << >> ELSE Head(ss) \o FlatSeq(Tail(ss))

\* DataFrame.drop(columns=cs): KeyError when a label is not a column.
DropCols(t, cs) ==
    IF ~(cs \subseteq Cols(t)) THEN Raise
    ELSE Ok([shape |-> [c \in Cols(t) \ cs |-> t.shape[c]],
             rows  |-> [i \in 1..Len(t.rows) |->
                          [c \in Cols(t) \ cs |-> t.rows[i][c]]]])

\* DataFrame.rename(columns={old: new}): a new frame; a missing label is ignored.
RenameCol(t, old, new) ==
    IF old \notin Cols(t) THEN t
    ELSE LET cs == (Cols(t) \ {old}) \cup {new}
             Src(c) == IF c = new THEN old ELSE c
         IN  [shape |-> [c \in cs |-> t.shape[Src(c)]],
              rows  |-> [i \in 1..Len(t.rows) |-> [c \in cs |-> t.rows[i][Src(c)]]]]

\* left.merge(right, on=["qid", "docno"]): the inner join.  A non-key label of
\* both sides gets the suffix _x on the left and _y on the right.  For every
\* left row in order, the right rows of the same key in order.
MergeOn(l, r) ==
    IF ~(KeyCols \subseteq Cols(l) /\ KeyCols \subseteq Cols(r)) THEN Raise
    ELSE
    LET lo   == Cols(l) \ KeyCols
        ro   == Cols(r) \ KeyCols
        NL(c) == IF c \in ro THEN Append(c, "x") ELSE c
        NR(c) == IF c \in lo THEN Append(c, "y") ELSE c
        lcs  == {NL(c) : c \in lo}
        rcs  == {NR(c) : c \in ro}
        cs   == KeyCols \cup lcs \cup rcs
        SL(n) == CHOOSE c \in lo : NL(c) = n
        SR(n) == CHOOSE c \in ro : NR(c) = n
        Join(a, b) == [n \in cs |-> IF n \in KeyCols THEN a[n]
                                    ELSE IF n \in lcs THEN a[SL(n)] ELSE b[SR(n)]]
        Matches(a) == LET hit == SelectSeq(r.rows, LAMBDA b : Key(b) = Key(a))
                      IN  [j \in 1..Len(hit) |-> Join(a, hit[j])]
    IN  Ok([shape |-> [n \in cs |-> IF n \in KeyCols THEN << >>
                                    ELSE IF n \in lcs THEN l.shape[SL(n)]
                                    ELSE r.shape[SR(n)]],
            rows  |-> FlatSeq([i \in 1..Len(l.rows) |-> Matches(l.rows[i])])])


\* The value pandas puts in a cell of a column the row's frame did not have.
NaN == "NaN"

\* pd.concat([a, b]): the rows of a, then the rows of b, over the union of the
\* columns.
Concat(a, b) ==
    LET cs == Cols(a) \cup Cols(b)
        Widen(t, r) == [c \in cs |-> IF c \in Cols(t) THEN r[c] ELSE NaN]
    IN  [shape |-> [c \in cs |-> IF c \in Cols(a) THEN a.shape[c] ELSE b.shape[c]],
         rows  |-> [i \in 1..Len(a.rows) |-> Widen(a, a.rows[i])]
                   \o [i \in 1..Len(b.rows) |-> Widen(b, b.rows[i])]]

\* DataFrame.drop_duplicates(subset=["qid", "docno"]): the first row of every
\* key is kept.
RECURSIVE KeepFirst(_, _)
KeepFirst(rows, seen) ==
    IF rows = << >> THEN << >>
    ELSE IF Key(Head(rows)) \in seen THEN KeepFirst(Tail(rows), seen)
    ELSE <<Head(rows)>> \o KeepFirst(Tail(rows), seen \cup {Key(Head(rows))})

\* DropDuplicates with keep="last": the last row of every key is kept.
RECURSIVE KeepLast(_)
KeepLast(rows) ==
    IF rows = << >> THEN << >>
    ELSE IF \E j \in 2..Len(rows) : Key(rows[j]) = Key(Head(rows))
         THEN KeepLast(Tail(rows))
         ELSE <<Head(rows)>> \o KeepLast(Tail(rows))
DropDuplicatesKeepLast(t) ==
    IF ~(KeyCols \subseteq Cols(t)) THEN Raise
    ELSE Ok([shape |-> t.shape, rows |-> KeepLast(t.rows)])

DropDuplicates(t) ==
    IF ~(KeyCols \subseteq Cols(t)) THEN Raise
    ELSE Ok([shape |-> t.shape, rows |-> KeepFirst(t.rows, {})])

\* DataFrame.sort_values(by=["qid", "docno"]): ascending by qid, then by docno.
KeyLeq(a, b) == a[QID] < b[QID] \/ (a[QID] = b[QID] /\ a[DOCNO] <= b[DOCNO])

RECURSIVE Insert(_, _)
Insert(r, sorted) ==
    IF sorted = << >> THEN <<r>>
    ELSE IF KeyLeq(Head(sorted), r) THEN <<Head(sorted)>> \o Insert(r, Tail(sorted))
    ELSE <<r>> \o sorted

RECURSIVE SortRows(_)
SortRows(rows) ==
    IF rows = << >> THEN << >>
    ELSE Insert(rows[Len(rows)], SortRows(SubSeq(rows, 1, Len(rows) - 1)))

SortValues(t) ==
    IF ~(KeyCols \subseteq Cols(t)) THEN Raise
    ELSE Ok([shape |-> t.shape, rows |-> SortRows(t.rows)])

IsSorted(t) ==
    \A i \in 1..(Len(t.rows) - 1) : KeyLeq(t.rows[i], t.rows[i + 1])

(***************************************************************************)
(* Transformers.  A node is a record of the fields its class keeps:        *)
(*   [kind |-> "Identity"]                                                 *)
(*   [kind |-> "Uniform", rtr |-> reference of the fixed table]            *)
(*   [kind |-> "Lambda", fn |-> n]   for lambda res : res[res["rank"] < n] *)
(*   [kind |-> "ScalarProd", transformer |-> node, scalar |-> Int]         *)
(*   [kind |-> "Sum" | "Union" | "Intersect", left |-> node, right |-> node]*)
(*   [kind |-> "FUnion" | "Compose", models |-> sequence of nodes]         *)
(* transform never assigns a field of a node.                              *)
(*                                                                         *)
(* The heap is a sequence of tables; a reference is an index into it.      *)
(* Eval(n, h, in) is n.transform(in) started in heap h: the heap it        *)
(* leaves, the reference it returns, whether it returned at all (ok) and,  *)
(* for a node with parallel branches, the tables of the branches as the    *)
(* node combined them (parts).                                             *)
(***************************************************************************)
FIXED == 1     \* heap reference of the table a Uniform node holds in rtr
INPUT == 2     \* heap reference of the table the caller passes to transform

Returned(h, out, parts) == [ok |-> TRUE, heap |-> h, out |-> out, parts |-> parts]
Raised(h)               == [ok |-> FALSE, heap |-> h, out |-> 0, parts |-> << >>]

\* res["score"] = self.scalar * res["score"], on the table itself.
ScaleScore(t, k) ==
    [t EXCEPT !.rows = [i \in 1..Len(t.rows) |->
                          [t.rows[i] EXCEPT ![SCORE] = k * @]]]

\* AddScores with the right score forgotten: merged["score"] = merged["score_x"].
AddScoresLeftOnly(m) ==
    IF ~({<<"score", "x">>, <<"score", "y">>} \subseteq Cols(m)) THEN Raise
    ELSE DropCols(
           [shape |-> [c \in Cols(m) \cup {SCORE} |->
                         IF c = SCORE THEN << >> ELSE m.shape[c]],
            rows  |-> [i \in 1..Len(m.rows) |->
                         [c \in Cols(m) \cup {SCORE} |->
                            IF c = SCORE THEN m.rows[i][<<"score", "x">>]
                            ELSE m.rows[i][c]]]],
           {<<"score", "x">>, <<"score", "y">>})

\* merged["score"] = merged["score_x"] + merged["score_y"], then the drop of
\* the two columns.
AddScores(m) ==
    LET sx == <<"score", "x">>
        sy == <<"score", "y">>
    IN  IF ~({sx, sy} \subseteq Cols(m)) THEN Raise
        ELSE LET cs == Cols(m) \cup {SCORE}
                 withScore ==
                   [shape |-> [c \in cs |-> IF c = SCORE THEN << >> ELSE m.shape[c]],
                    rows  |-> [i \in 1..Len(m.rows) |->
                                 [c \in cs |-> IF c = SCORE
                                               THEN m.rows[i][sx] + m.rows[i][sy]
                                               ELSE m.rows[i][c]]]]
             IN  DropCols(withScore, {sx, sy})

\* np.stack([x, y]) of two cells: the shapes must agree.
StackOk(sx, sy) == sx = sy
Stack(x, y)     == <<x, y>>

\* rtr["features"] = rtr.apply(np.stack([features_x, features_y])), then the
\* drop of the two columns, on a merged frame m that has rows.
StackFeatures(m, fx, fy) ==
    IF ~({fx, fy} \subseteq Cols(m)) THEN Raise
    ELSE IF ~StackOk(m.shape[fx], m.shape[fy]) THEN Raise
    ELSE DropCols(
           [shape |-> [c \in Cols(m) \cup {FEATURES} |->
                         IF c = FEATURES THEN <<2>> \o m.shape[fx] ELSE m.shape[c]],
            rows  |-> [i \in 1..Len(m.rows) |->
                         [c \in Cols(m) \cup {FEATURES} |->
                            IF c = FEATURES THEN Stack(m.rows[i][fx], m.rows[i][fy])
                            ELSE m.rows[i][c]]]],
           {fx, fy})

\* FeatureUnionPipeline.transform's _reduce_fn, from the merge mg on.  On a
\* merge without rows DataFrame.apply returns a frame instead of a column and
\* the assignment of rtr["features"] raises.
ReduceMerged(mg) ==
    IF ~mg.ok THEN Raise
    ELSE IF mg.t.rows = << >> THEN Raise
    ELSE StackFeatures(mg.t, <<"features", "x">>, <<"features", "y">>)

ReduceFn(left, right) == ReduceMerged(MergeOn(left, right))

\* functools.reduce(_reduce_fn, all_results), all_results not empty.
RECURSIVE Reduce(_, _)
Reduce(acc, rest) ==
    IF rest = << >> THEN Ok(acc)
    ELSE LET step == ReduceFn(acc, Head(rest))
         IN  IF ~step.ok THEN Raise ELSE Reduce(step.t, Tail(rest))

\* SetUnionTransformer.transform, from the two results on.
UnionOf(res1, res2) ==
    LET dd == DropDuplicates(Concat(res1, res2))
        sv == IF dd.ok THEN SortValues(dd.t) ELSE Raise
    IN  IF ~sv.ok THEN Raise ELSE DropCols(sv.t, {SCORE})

\* SetIntersectionTransformer.transform, from the two results on.
IntersectOf(res1, res2) ==
    LET mg == MergeOn(res1, res2)
    IN  IF ~mg.ok THEN Raise
        ELSE DropCols(mg.t, {<<"score", "x">>, <<"score", "y">>})

\* CombSumTransformer.transform, from the two results on.
SumOf(res1, res2) ==
    LET mg == MergeOn(res1, res2)
    IN  IF ~mg.ok THEN Raise ELSE AddScores(mg.t)

\* IdentityTransformer.transform: the input itself, not a copy.
IdentityTransform(h, in) == Returned(h, in, << >>)

\* UniformTransform without the copy: return self.rtr.
UniformTransformNoCopy(n, h) == Returned(h, n.rtr, << >>)

\* UniformTransformer.transform: self.rtr.copy(), a new table.
UniformTransform(n, h) == Returned(Append(h, h[n.rtr]), Len(h) + 1, << >>)

\* LambdaPipeline.transform: fn(inputRes), for the function of the class's
\* example, lambda res : res[res["rank"] < n], a new table.
LambdaTransform(n, h, in) ==
    IF RANK \notin Cols(h[in]) THEN Raised(h)
    ELSE Returned(Append(h, [h[in] EXCEPT !.rows =
                               SelectSeq(@, LAMBDA r : r[RANK] < n.fn)]),
                  Len(h) + 1, << >>)

\* ScalarProductTransformer.transform once the wrapped transformer returned r:
\* the score column of the returned table is assigned in place.
ScalarProductTransform(n, r) ==
    IF ~r.ok THEN Raised(r.heap)
    ELSE IF SCORE \notin Cols(r.heap[r.out]) THEN Raised(r.heap)
    ELSE Returned([r.heap EXCEPT ![r.out] = ScaleScore(@, n.scalar)], r.out, << >>)

\* A binary combinator once both branches returned (r1, then r2 in r1's heap):
\* the two tables are read when they are combined, the result is a new table.
Combine(kind, res1, res2) ==
    IF kind = "Sum" THEN SumOf(res1, res2)
    ELSE IF kind = "Union" THEN UnionOf(res1, res2)
    ELSE IntersectOf(res1, res2)

BinaryTransform(kind, r1, r2) ==
    IF ~r1.ok THEN Raised(r1.heap)
    ELSE IF ~r2.ok THEN Raised(r2.heap)
    ELSE LET res1 == r2.heap[r1.out]
             res2 == r2.heap[r2.out]
             c    == Combine(kind, res1, res2)
         IN  IF ~c.ok THEN Raised(r2.heap)
             ELSE Returned(Append(r2.heap, c.t), Len(r2.heap) + 1, <<res1, res2>>)

\* FeatureUnionPipeline.transform once every model returned: all holds the
\* renamed results (new tables), h is the heap the last model left.
FeatureUnionMerged(fin, all, h) ==
    IF ~fin.ok THEN Raised(h)
    ELSE Returned(Append(h, fin.t), Len(h) + 1, all)

FeatureUnionReduced(red, all, h, in) ==
    FeatureUnionMerged(IF red.ok THEN MergeOn(h[in], red.t) ELSE Raise, all, h)

FeatureUnionTransform(all, h, in) ==
    FeatureUnionReduced(Reduce(Head(all), Tail(all)), all, h, in)

RECURSIVE Eval(_, _, _)
RECURSIVE EvalAll(_, _, _, _)
RECURSIVE Thread(_, _, _)

\* The loop of FeatureUnionPipeline.transform over self.models.
EvalAll(models, h, in, all) ==
    IF models = << >> THEN [ok |-> TRUE, heap |-> h, all |-> all]
    ELSE LET r == Eval(Head(models), h, in)
         IN  IF ~r.ok THEN [ok |-> FALSE, heap |-> r.heap, all |-> all]
             ELSE EvalAll(Tail(models), r.heap, in,
                          Append(all, RenameCol(r.heap[r.out], SCORE, FEATURES)))

\* The loop of ComposedPipeline.transform over self.models.
Thread(models, h, in) ==
    IF models = << >> THEN Returned(h, in, << >>)
    ELSE LET r == Eval(Head(models), h, in)
         IN  IF ~r.ok THEN Raised(r.heap) ELSE Thread(Tail(models), r.heap, r.out)

Eval(n, h, in) ==
    CASE n.kind = "Identity"   -> IdentityTransform(h, in)
      [] n.kind = "Uniform"    -> UniformTransform(n, h)
      [] n.kind = "Lambda"     -> LambdaTransform(n, h, in)
      [] n.kind = "ScalarProd" -> ScalarProductTransform(n, Eval(n.transformer, h, in))
      [] n.kind \in {"Sum", "Union", "Intersect"} ->
           LET r1 == Eval(n.left, h, in)
               r2 == IF r1.ok THEN Eval(n.right, r1.heap, in) ELSE r1
           IN  BinaryTransform(n.kind, r1, r2)
      [] n.kind = "FUnion" ->
           IF DOCNO \notin Cols(h[in]) /\ <<"docid">> \notin Cols(h[in]) THEN Raised(h)
           ELSE LET ra == EvalAll(n.models, h, in, << >>)
                IN  IF ~ra.ok THEN Raised(ra.heap)
                    ELSE FeatureUnionTransform(ra.all, ra.heap, in)
      [] n.kind = "Compose" -> Thread(n.models, h, in)

(***************************************************************************)
(* The pipelines that are evaluated.                                       *)
(***************************************************************************)
Identity            == [kind |-> "Identity"]
Uniform(ref)        == [kind |-> "Uniform", rtr |-> ref]
Lambda(f)           == [kind |-> "Lambda", fn |-> f]
ScalarProduct(t, k) == [kind |-> "ScalarProd", transformer |-> t, scalar |-> k]
Binary(kind, l, r)  == [kind |-> kind, left |-> l, right |-> r]
NAry(kind, ms)      == [kind |-> kind, models |-> ms]

Leaves   == {Identity, Uniform(FIXED)}
Scaled   == Leaves \cup {ScalarProduct(l, k) : l \in Leaves, k \in Scalars}
Branches ==
    {Binary(kd, l, r) : kd \in {"Sum", "Union", "Intersect"}, l \in Scaled, r \in Scaled}
    \cup {NAry(kd, <<l, r>>) : kd \in {"FUnion", "Compose"}, l \in Scaled, r \in Scaled}
    \cup {NAry("FUnion", <<a, b, c>>) : a \in Leaves, b \in Leaves, c \in Leaves}
    \cup {NAry("Compose", <<l, Lambda(1)>>) : l \in Leaves}
ScaledSums ==
    {ScalarProduct(Binary("Sum", a, b), k) : a \in Leaves, b \in Leaves, k \in Scalars}
Pipelines == Scaled \cup Branches \cup ScaledSums

\* The tables the caller passes and the Uniform node holds: result tables
\* with unique (qid, docno), of at most MaxRows rows.
Triples == Qids \X Docnos \X (1..MaxScore)
Tables  ==
    {t \in {MkTable(qds) : qds \in UNION {[1..n -> Triples] : n \in 0..MaxRows}} :
       UniqueKeys(t)}

(***************************************************************************)
(* State.                                                                  *)
(*   heap  : the two tables that outlive a call: heap[FIXED] is the table  *)
(*           of the Uniform node, heap[INPUT] the caller's table           *)
(*   fixed : the contents of the Uniform node's table at its construction  *)
(*   pipe  : the pipeline of the last call                                 *)
(*   pre   : the heap when the last call started                           *)
(*   res   : what the last call returned: ok, the reference (FIXED, INPUT  *)
(*           or FRESH for a table made by the call) and the table          *)
(*   parts : the branch tables the root of the last call combined          *)
(*   phase : "idle", "returned", "raised" (the call raised) or "mutated"   *)
(*           (the caller changed the returned table)                       *)
(*   calls : the number of calls so far                                    *)
(***************************************************************************)
VARIABLES heap, fixed, pipe, pre, res, parts, phase, calls
evalVars == <<heap, fixed, pipe, pre, res, parts, phase, calls>>

(***************************************************************************)
(* State of the operator layer (the construction of pipelines).            *)
(*   nodes : the transformer objects made so far; a reference to one is    *)
(*           its index.  The models of an n-ary node are references.       *)
(*   old   : nodes before the last operator application                    *)
(*   op    : the last operator application: its name and two operands      *)
(*   ret   : the reference it returned, 0 when it raised                   *)
(*   exc   : the exception it raised, "none" when it returned              *)
(*   napps : the number of operator applications so far                    *)
(***************************************************************************)
VARIABLES nodes, old, op, ret, exc, napps
buildVars == <<nodes, old, op, ret, exc, napps>>

vars == <<evalVars, buildVars>>

FRESH  == INPUT + 1
NoPipe == [kind |-> "None"]
NoRes  == [ok |-> FALSE, ref |-> 0, t |-> NoTable]
NoOp   == [name |-> "none", self |-> 0, right |-> 0]

\* No operator has been applied / no table exists.
NothingBuilt ==
    /\ nodes = << >> /\ old = << >> /\ op = NoOp /\ ret = 0 /\ exc = "none" /\ napps = 0
NothingCalled ==
    /\ pipe = NoPipe /\ res = NoRes /\ parts = << >> /\ phase = "idle" /\ calls = 0

InitTables ==
    /\ fixed \in Tables
    /\ \E t \in Tables : heap = <<fixed, t>>
    /\ pre = heap
    /\ NothingCalled

Init == InitTables /\ NothingBuilt

\* p.transform(the caller's table)
Transform(p) ==
    LET r == Eval(p, heap, INPUT)
    IN  /\ pipe' = p
        /\ pre' = heap
        /\ heap' = SubSeq(r.heap, 1, 2)
        /\ res' = IF r.ok
                  THEN [ok |-> TRUE, ref |-> IF r.out <= INPUT THEN r.out ELSE FRESH,
                        t |-> r.heap[r.out]]
                  ELSE NoRes
        /\ parts' = r.parts
        /\ phase' = IF r.ok THEN "returned" ELSE "raised"
        /\ calls' = calls + 1
        /\ UNCHANGED <<fixed, buildVars>>

\* One pipeline is called once.
Next == phase = "idle" /\ \E p \in Pipelines : Transform(p)

Spec == Init /\ [][Next]_vars

(***************************************************************************)
(* Properties of one evaluation.                                           *)
(***************************************************************************)
RowOf(t, k)   == t.rows[CHOOSE i \in 1..Len(t.rows) : Key(t.rows[i]) = k]
Scored(t)     == KeyCols \cup {SCORE} \subseteq Cols(t) /\ UniqueKeys(t)

\* What branch b returns when it alone is called on the input of the last call.
Alone(b) == LET r == Eval(b, pre, INPUT) IN r.heap[r.out]

C3_SetOutputsSorted ==
    (pipe.kind \in {"Union", "Intersect"} /\ phase = "returned") => IsSorted(res.t)

\* The half of C3 that is about SetUnion.
UnionSorted == (pipe.kind = "Union" /\ phase = "returned") => IsSorted(res.t)

\* C4: the caller's table has the same contents after transform returns as
\* before the call.
C4_InputNotMutated == phase = "returned" => heap[INPUT] = pre[INPUT]

\* C5: the table every branch of a Sum, SetUnion, SetIntersection or
\* FeatureUnion contributes is the table the branch returns when it alone is
\* called on the input.
Contribution(b) ==
    IF pipe.kind = "FUnion" THEN RenameCol(Alone(b), SCORE, FEATURES) ELSE Alone(b)
BranchesOf(p) ==
    IF p.kind = "FUnion" THEN p.models ELSE <<p.left, p.right>>
C5_BranchesIndependent ==
    (pipe.kind \in {"Sum", "Union", "Intersect", "FUnion"} /\ phase = "returned") =>
        \A i \in 1..Len(parts) : parts[i] = Contribution(BranchesOf(pipe)[i])

\* C6: k * (a + b) and k*a + k*b return the same score for every (qid, docno).
Distributed(p) ==
    Binary("Sum", ScalarProduct(p.transformer.left, p.scalar),
                  ScalarProduct(p.transformer.right, p.scalar))
SameScores(t, u) ==
    /\ KeysOf(t) = KeysOf(u)
    /\ \A k \in KeysOf(t) : RowOf(t, k)[SCORE] = RowOf(u, k)[SCORE]
C6_ScalarDistributes ==
    (pipe \in ScaledSums /\ phase = "returned") =>
        SameScores(res.t, Alone(Distributed(pipe)))

\* C8, for three operands whose tables and the input share a key: the features
\* of every returned row are a vector of three components, component i the
\* score operand i returned, and the rows are the keys of all operands and
\* the input.
CommonKeys ==
    {k \in KeysOf(pre[INPUT]) : \A i \in 1..Len(pipe.models) : k \in KeysOf(Alone(pipe.models[i]))}
C8_FeaturesOfThree ==
    (pipe.kind = "FUnion" /\ phase # "idle" /\ Len(pipe.models) = 3 /\ CommonKeys # {}) =>
        /\ phase = "returned"
        /\ KeysOf(res.t) = CommonKeys
        /\ \A i \in 1..Len(res.t.rows) :
             /\ Len(res.t.rows[i][FEATURES]) = 3
             /\ \A j \in 1..3 :
                  res.t.rows[i][FEATURES][j] = RowOf(parts[j], Key(res.t.rows[i]))[FEATURES]

(***************************************************************************)
(* Repeated calls of a Uniform node, alone and wrapped in a ScalarProduct, *)
(* with a caller that changes the tables it got back.                      *)
(***************************************************************************)
MaxCalls == 2

UniformPipes ==
    {Uniform(FIXED)} \cup {ScalarProduct(Uniform(FIXED), k) : k \in Scalars}

\* The caller assigns a score of the table the last call returned, in place.
ClientMutate ==
    /\ phase \in {"returned", "mutated", "passed"}
    /\ \E i \in 1..Len(res.t.rows), v \in 1..MaxScore :
         LET t == [res.t EXCEPT !.rows[i][SCORE] = v]
         IN  /\ t # res.t
             /\ res' = [res EXCEPT !.t = t]
             /\ heap' = IF res.ref \in {FIXED, INPUT}
                        THEN [heap EXCEPT ![res.ref] = t] ELSE heap
    /\ phase' = "mutated"
    /\ UNCHANGED <<fixed, pipe, pre, parts, calls, buildVars>>

\* The caller takes the table the last call returned as its next input.
PassResult ==
    /\ phase \in {"returned", "mutated"}
    /\ res.ref = FRESH
    /\ heap' = [heap EXCEPT ![INPUT] = res.t]
    /\ res' = [res EXCEPT !.ref = INPUT]
    /\ phase' = "passed"
    /\ UNCHANGED <<fixed, pipe, pre, parts, calls, buildVars>>

CallUniform == calls < MaxCalls /\ \E p \in UniformPipes : Transform(p)

NextCalls == CallUniform \/ ClientMutate \/ PassResult

SpecCalls == Init /\ [][NextCalls]_vars

\* C10: a Uniform node's table is never changed, and every call of the node
\* returns a new table equal to the table the node was made with.
C10_UniformReturnsFixedCopy ==
    /\ heap[FIXED] = fixed
    /\ pipe.kind = "Uniform" => phase # "raised"
    /\ (pipe.kind = "Uniform" /\ phase = "returned") =>
           (res.t = fixed /\ res.ref = FRESH)

\* A scaled copy came back from an earlier call and was passed as the input of
\* a later call of the Uniform node, which returned the fixed table again.
C10_Witness ==
    /\ pipe.kind = "Uniform" /\ phase = "returned" /\ calls >= 2
    /\ fixed.rows # << >>
    /\ \E i \in 1..Len(heap[INPUT].rows) : heap[INPUT].rows[i][SCORE] > MaxScore
    /\ res.t = fixed

(***************************************************************************)
(* The operator layer: TransformerBase's overloads and the constructors    *)
(* they call.  An operand is [tag, val]: a transformer (val its reference),*)
(* a callable (val the rank bound of the filter it is), a number (val) or  *)
(* another object.  matchpy's Operation.__init__, which the constructors   *)
(* of the Operation subclasses call first, is outside the repository and   *)
(* taken to return.                                                        *)
(***************************************************************************)
MaxApps == 2       \* operator applications in a run

Node(i)     == [tag |-> "node", val |-> i]
Callable(f) == [tag |-> "callable", val |-> f]
Number(k)   == [tag |-> "number", val |-> k]
Other       == [tag |-> "other", val |-> 0]

Built(ns, r)    == [nodes |-> ns, ret |-> r, exc |-> "none"]
Failed(ns, e)   == [nodes |-> ns, ret |-> 0, exc |-> e]

\* list(map(lambda x : LambdaPipeline(x) if callable(x) else x, models))
RECURSIVE LiftModels(_, _, _)
LiftModels(ns, operands, models) ==
    IF operands = << >> THEN [nodes |-> ns, models |-> models]
    ELSE IF Head(operands).tag = "callable"
         THEN LiftModels(Append(ns, Lambda(Head(operands).val)),
                         Tail(operands), Append(models, Len(ns) + 1))
         ELSE LiftModels(ns, Tail(operands), Append(models, Head(operands).val))

\* NAryTransformerBase.__init__ of a ComposedPipeline or FeatureUnionPipeline.
NAryLifted(kind, l) ==
    Built(Append(l.nodes, [kind |-> kind, models |-> l.models]), Len(l.nodes) + 1)
NAryTransformerInit(kind, ns, operands) ==
    NAryLifted(kind, LiftModels(ns, operands, << >>))

\* BinaryTransformerBase.__init__: self.left = left reads the name left, which
\* is neither a parameter nor a local nor a name of the module: NameError.
BinaryTransformerInit(kind, ns, operands) == Failed(ns, "NameError")

\* ScalarProductTransformer.__init__: the class derives from TransformerBase
\* alone, so super().__init__(operands=...) is object.__init__ with a keyword
\* argument: TypeError.
ScalarProductInit(ns, transformer, scalar) == Failed(ns, "TypeError")

\* __mul__ / __rmul__: the assert on the other operand, then the constructor.
MulInit(ns, self, other) ==
    IF other.tag # "number" THEN Failed(ns, "AssertionError")
    ELSE ScalarProductInit(ns, self, other.val)

Refs      == 1..Len(nodes)
Operands  == {Node(i) : i \in Refs} \cup {Callable(1)}
MulOperands == {Number(k) : k \in Scalars} \cup {Other}

Apply(name, self, right, r) ==
    /\ napps < MaxApps
    /\ napps' = napps + 1
    /\ old' = nodes
    /\ op' = [name |-> name, self |-> Node(self), right |-> right]
    /\ nodes' = r.nodes
    /\ ret' = r.ret
    /\ exc' = r.exc
    /\ UNCHANGED evalVars

\* self >> right
Rshift == \E self \in Refs, right \in Operands :
    Apply("rshift", self, right, NAryTransformerInit("Compose", nodes, <<Node(self), right>>))
\* self + right
Add == \E self \in Refs, right \in Operands :
    Apply("add", self, right, BinaryTransformerInit("Sum", nodes, <<Node(self), right>>))
\* self ** right
Pow == \E self \in Refs, right \in Operands :
    Apply("pow", self, right, NAryTransformerInit("FUnion", nodes, <<Node(self), right>>))
\* self * rhs
Mul == \E self \in Refs, rhs \in MulOperands :
    Apply("mul", self, rhs, MulInit(nodes, Node(self), rhs))
\* lhs * self
Rmul == \E self \in Refs, lhs \in MulOperands :
    Apply("rmul", self, lhs, MulInit(nodes, Node(self), lhs))
\* self | right
Or == \E self \in Refs, right \in Operands :
    Apply("or", self, right, BinaryTransformerInit("Union", nodes, <<Node(self), right>>))
\* self & right
And == \E self \in Refs, right \in Operands :
    Apply("and", self, right, BinaryTransformerInit("Intersect", nodes, <<Node(self), right>>))

EmptyTable == MkTable(<< >>)

\* An Identity and a Uniform transformer exist; nothing is evaluated.
InitBuild ==
    /\ nodes = <<Identity, Uniform(FIXED)>>
    /\ old = nodes /\ op = NoOp /\ ret = 0 /\ exc = "none" /\ napps = 0
    /\ fixed = EmptyTable /\ heap = <<fixed, fixed>> /\ pre = heap
    /\ NothingCalled

NextBuild == Rshift \/ Add \/ Pow \/ Mul \/ Rmul \/ Or \/ And

SpecBuild == InitBuild /\ [][NextBuild]_vars

\* C7: no Compose node built by >> has a Compose node among its models.
C7_ComposeIsFlat ==
    \A i \in 1..Len(nodes) :
        nodes[i].kind = "Compose" =>
            \A j \in 1..Len(nodes[i].models) :
                nodes[nodes[i].models[j]].kind # "Compose"

\* The node an operand became: a transformer itself, a callable the Lambda
\* node that wraps it.
IsOperand(ref, operand) ==
    \/ operand.tag = "node" /\ ref = operand.val
    \/ /\ operand.tag = "callable"
       /\ nodes[ref] = Lambda(operand.val)
       /\ ref > Len(old)

\* C9: an operator applied to transformers (and *, to a transformer and a
\* number) returns a new node whose children are the operands in their order
\* and leaves every node that existed unchanged.
C9_OperatorsBuildNewNodes ==
    (op.name # "none" /\ op.right.tag # "other") =>
        /\ exc = "none"
        /\ ret = Len(nodes) /\ ret > Len(old)
        /\ SubSeq(nodes, 1, Len(old)) = old
        /\ Len(nodes[ret].models) = 2
        /\ IsOperand(nodes[ret].models[1], op.self)
        /\ IsOperand(nodes[ret].models[2], op.right)

\* What does hold of the operators: the nodes that existed are unchanged.
ExistingNodesUnchanged == SubSeq(nodes, 1, Len(old)) = old

=============================================================================
